---- MODULE Spec2Model ----
(***************************************************************************)
(* A model of the COSD HTML ingestion: the scraper (cosd_scraper.py), the  *)
(* warehouse gateway (snowflake_ncl.py) and the batch driver (main.py).    *)
(*                                                                         *)
(* Text is modelled as a sequence of symbols.  A symbol is one character,  *)
(* or a run of characters that no operation of the code can cut (a word, a *)
(* number, a marker such as "Numerator:").  split, replace and strip work  *)
(* on these sequences the way str.split, str.replace and str.strip work on *)
(* characters.                                                             *)
(***************************************************************************)
EXTENDS Integers, Sequences, FiniteSets, Bags, TLC

VARIABLES
    \* the batch driver (main.py) and the two stores it writes to
    unprocessed, archive, csvs, wh, pc, files, idx, processing_flag,
    df_keys, log, runs, drops, faults, crash,
    \* one call of upload_df
    up_in, up_out,
    \* the walk over the sections of one document
    doc, nav_out,
    \* one call of load_data_from_tab
    tab_in, tab_out,
    \* the extraction of the tables of one file
    ex_in, ex_out,
    \* the normalisation of one column name
    name_in, name_out

batchVars == <<unprocessed, archive, csvs, wh, pc, files, idx,
               processing_flag, df_keys, log, runs, drops, faults,
               crash>>
upVars == <<up_in, up_out>>
navVars == <<doc, nav_out>>
tabVars == <<tab_in, tab_out>>
exVars == <<ex_in, ex_out>>
nameVars == <<name_in, name_out>>
vars == <<batchVars, upVars, navVars, tabVars, exVars, nameVars>>

\* The value of a variable that the specification at hand does not use.
Unused == "unused"

(***************************************************************************)
(* Text                                                                    *)
(***************************************************************************)

\* Whether pattern p occurs in s at position i.
IsPrefixAt(s, p, i) ==
    /\ i + Len(p) - 1 <= Len(s)
    /\ \A k \in 1..Len(p) : s[i + k - 1] = p[k]

RECURSIVE SplitAcc(_, _, _, _)
SplitAcc(s, sep, i, cur) ==
    IF i > Len(s) THEN <<cur>>
    ELSE IF IsPrefixAt(s, sep, i)
         THEN <<cur>> \o SplitAcc(s, sep, i + Len(sep), <<>>)
         ELSE SplitAcc(s, sep, i + 1, Append(cur, s[i]))

\* str.split(sep) for a non-empty sep: the pieces between the occurrences
\* of sep, scanned from the left, occurrences not overlapping.
Split(s, sep) == SplitAcc(s, sep, 1, <<>>)

RECURSIVE ReplaceFrom(_, _, _, _)
ReplaceFrom(s, old, new, i) ==
    IF i > Len(s) THEN <<>>
    ELSE IF IsPrefixAt(s, old, i)
         THEN new \o ReplaceFrom(s, old, new, i + Len(old))
         ELSE <<s[i]>> \o ReplaceFrom(s, old, new, i + 1)

\* str.replace(old, new) for a non-empty old.
Replace(s, old, new) == ReplaceFrom(s, old, new, 1)

RECURSIVE JoinWith(_, _)
JoinWith(parts, sep) ==
    IF Len(parts) = 0 THEN <<>>
    ELSE IF Len(parts) = 1 THEN parts[1]
    ELSE parts[1] \o sep \o JoinWith(Tail(parts), sep)

Whitespace == {" "}

RECURSIVE LStrip(_)
LStrip(s) ==
    IF Len(s) > 0 /\ s[1] \in Whitespace THEN LStrip(Tail(s)) ELSE s

RECURSIVE RStrip(_)
RStrip(s) ==
    IF Len(s) > 0 /\ s[Len(s)] \in Whitespace
    THEN RStrip(SubSeq(s, 1, Len(s) - 1)) ELSE s

\* str.strip()
Strip(s) == LStrip(RStrip(s))

\* The sequences over set S of length at most n.
SeqsUpTo(S, n) == UNION {[1..k -> S] : k \in 0..n}

\* What a call gives back: a value, or an exception that leaves the call.
Returned(v) == [raised |-> FALSE, value |-> v]
Raised(what) == [raised |-> TRUE, value |-> what]

(***************************************************************************)
(* Data frames: the columns in order, and the rows, each row holding one   *)
(* value per column.  A column name is a text.                             *)
(***************************************************************************)

\* pd.DataFrame()
EmptyFrame == [columns |-> <<>>, rows |-> <<>>]

\* A value given for a column: a list of values, or one value for all rows.
ListCell(items) == [list |-> TRUE, items |-> items]
ScalarCell(v) == [list |-> FALSE, items |-> <<v>>]

\* pd.DataFrame({name: value, ...}): the lists must have one length, which
\* is the number of rows; a scalar is repeated on every row; with no list
\* at all, or lists of different lengths, pandas raises ValueError.
FrameFromDict(names, cells) ==
    LET lens == {Len(cells[k].items) : k \in {j \in 1..Len(cells) : cells[j].list}}
    IN  IF Cardinality(lens) # 1 THEN Raised("ValueError")
        ELSE LET n == CHOOSE l \in lens : TRUE
             IN  Returned([columns |-> names,
                           rows |-> [i \in 1..n |->
                                      [k \in 1..Len(cells) |->
                                         IF cells[k].list THEN cells[k].items[i]
                                         ELSE cells[k].items[1]]]])

\* pd.concat([a, b], ignore_index=True) for frames of the same columns, or
\* with a the empty frame.
Concat(a, b) ==
    IF a.columns = <<>> THEN b
    ELSE [columns |-> a.columns, rows |-> a.rows \o b.rows]

\* The position of column name in the frame, 0 when it has no such column.
ColumnIndex(df, name) ==
    IF \E k \in 1..Len(df.columns) : df.columns[k] = name
    THEN CHOOSE k \in 1..Len(df.columns) :
             /\ df.columns[k] = name
             /\ \A j \in 1..(k - 1) : df.columns[j] # name
    ELSE 0

\* df[name] = v for a scalar v: the column is overwritten where it exists
\* and appended as the last column where it does not.
SetScalarColumn(df, name, v) ==
    LET at == ColumnIndex(df, name)
    IN  IF at = 0
        THEN [columns |-> Append(df.columns, name),
              rows |-> [i \in 1..Len(df.rows) |-> Append(df.rows[i], v)]]
        ELSE [columns |-> df.columns,
              rows |-> [i \in 1..Len(df.rows) |->
                         [k \in 1..Len(df.columns) |->
                            IF df.columns[k] = name THEN v ELSE df.rows[i][k]]]]

\* The value of column name on row i.
CellOf(df, i, name) == df.rows[i][ColumnIndex(df, name)]

HasColumn(df, name) == ColumnIndex(df, name) # 0

(***************************************************************************)
(* cosd_scraper.py: load_data_from_tab and pull_data_from_hoverfield       *)
(***************************************************************************)

C_SECTION_ID == <<"COSD_SECTION_ID">>
C_SECTION_NUM == <<"COSD_SECTION_NUM">>
C_SECTION_NAME == <<"COSD_SECTION_NAME">>
C_PLOT_NAME == <<"COSD_PLOT_NAME">>
C_CATEGORY == <<"CATEGORY">>
C_X == <<"X">>
C_Y == <<"Y">>
C_NUMERATOR == <<"NUMERATOR">>
C_DENOMINATOR == <<"DENOMINATOR">>

PlainColumns ==
    <<C_SECTION_ID, C_SECTION_NUM, C_SECTION_NAME, C_PLOT_NAME,
      C_CATEGORY, C_X, C_Y>>
HoverColumns == PlainColumns \o <<C_NUMERATOR, C_DENOMINATOR>>

\* One data point of a hover text: the text after the marker, up to the
\* next "<", stripped; IndexError when the marker is missing.
HoverSection(data_point, marker) ==
    LET parts == Split(data_point, <<marker>>)
    IN  IF Len(parts) < 2 THEN Raised("IndexError")
        ELSE Returned(Strip(Split(parts[2], <<"<">>)[1]))

RECURSIVE PullAll(_, _)
PullAll(points, marker) ==
    IF Len(points) = 0 THEN Returned(<<>>)
    ELSE LET first == HoverSection(points[1], marker)
             rest == PullAll(Tail(points), marker)
         IN  IF first.raised THEN first
             ELSE IF rest.raised THEN rest
             ELSE Returned(<<first.value>> \o rest.value)

\* pull_data_from_hoverfield: a hover text that is no list is taken as a
\* list of one; the numerators and the denominators, one per data point.
pull_data_from_hoverfield(hover_text) ==
    LET points == hover_text.items
        num == PullAll(points, "Numerator:")
        den == PullAll(points, "Denominator:")
    IN  IF num.raised THEN num
        ELSE IF den.raised THEN den
        ELSE Returned([num |-> num.value, den |-> den.value])

\* Lines 107-112: the plot name from the plot title.  The title is cut at
\* every "(", the piece after the first "(" is cut at every ")", and the
\* second piece of that is the name; IndexError when there is none.
PlotNameUnstripped(tab_plot_title) ==
    LET cut == Split(tab_plot_title, <<"(">>)
    IN  IF Len(cut) > 1
        THEN LET inner == Split(cut[2], <<")">>)
             IN  IF Len(inner) < 2 THEN Raised("IndexError")
                 ELSE Returned(inner[2])
        ELSE Returned(tab_plot_title)

PlotName(tab_plot_title) ==
    LET cut == Split(tab_plot_title, <<"(">>)
    IN  IF Len(cut) > 1
        THEN LET inner == Split(cut[2], <<")">>)
             IN  IF Len(inner) < 2 THEN Raised("IndexError")
                 ELSE Returned(Strip(inner[2]))
        ELSE Returned(tab_plot_title)

\* Lines 116-119: the series entries the rows are read from.  A scatter
\* plot's first entry is left out; with any other type than scatter and
\* bar the name data_dicts is never bound and its first use raises.
SelectedSeries(data_type, data) ==
    IF data_type = "scatter" THEN Returned(Tail(data))
    ELSE IF data_type = "bar" THEN Returned(data)
    ELSE Raised("UnboundLocalError")

HoverFieldsAnyEntry(data_type, data_dicts) ==
    /\ \E k \in 1..Len(data_dicts) : data_dicts[k].hover.present
    /\ data_type = "bar"

\* Lines 121-124: whether the rows carry a numerator and a denominator,
\* decided on the first selected entry alone.
HoverFields(data_type, data_dicts) ==
    /\ data_dicts[1].hover.present
    /\ data_type = "bar"

\* The head of every row of one tab.
TabHead(tab_div_id, section_num, section_name, plot_name) ==
    <<ScalarCell(tab_div_id), ScalarCell(section_num),
      ScalarCell(section_name), ScalarCell(plot_name)>>

\* Lines 129-142: one frame per entry, of its name, x and y, appended to
\* the frame read so far.
RECURSIVE PlainFrames(_, _, _)
PlainFrames(data_dicts, head, df_data) ==
    IF Len(data_dicts) = 0 THEN Returned(df_data)
    ELSE LET data_dict == data_dicts[1]
             df_category ==
                 FrameFromDict(PlainColumns,
                     head \o <<ScalarCell(data_dict.name), data_dict.x,
                               data_dict.y>>)
         IN  IF df_category.raised THEN df_category
             ELSE PlainFrames(Tail(data_dicts), head,
                              Concat(df_data, df_category.value))

\* Lines 144-160: as above, with the numerators and denominators pulled
\* from the entry's hover text; KeyError when the entry has none.
RECURSIVE HoverFrames(_, _, _)
HoverFrames(data_dicts, head, df_data) ==
    IF Len(data_dicts) = 0 THEN Returned(df_data)
    ELSE LET data_dict == data_dicts[1]
             pulled == IF data_dict.hover.present
                       THEN pull_data_from_hoverfield(data_dict.hover)
                       ELSE Raised("KeyError")
         IN  IF pulled.raised THEN pulled
             ELSE LET df_category ==
                          FrameFromDict(HoverColumns,
                              head \o <<ScalarCell(data_dict.name),
                                        data_dict.x, data_dict.y,
                                        ListCell(pulled.value.num),
                                        ListCell(pulled.value.den)>>)
                  IN  IF df_category.raised THEN df_category
                      ELSE HoverFrames(Tail(data_dicts), head,
                                       Concat(df_data, df_category.value))

\* load_data_from_tab.  node is the div of the tab: its h4 heading (or
\* none), its JSON script (none, not JSON, or the payload), and the
\* payload: the plot title, the type of the first entry of the data, and
\* the entries.
load_data_from_tab(tab_div_id, node) ==
    IF ~node.heading.present THEN Raised("AttributeError")
    ELSE IF node.script = "none" THEN Raised("AttributeError")
    ELSE IF node.script = "unparseable" THEN Raised("JSONDecodeError")
    ELSE
    LET tab_name == node.heading.text
        section_num == Split(tab_name, <<" ">>)[1]
        section_name == SubSeq(tab_name, Len(section_num) + 2, Len(tab_name))
        plot_name == PlotName(node.title)
    IN  IF plot_name.raised THEN plot_name
        ELSE IF Len(node.data) = 0 THEN Raised("IndexError")
        ELSE
        LET selected == SelectedSeries(node.type, node.data)
        IN  IF selected.raised THEN selected
            ELSE IF Len(selected.value) = 0 THEN Raised("IndexError")
            ELSE
            LET head == TabHead(tab_div_id, section_num, section_name,
                                plot_name.value)
            IN  IF ~HoverFields(node.type, selected.value)
                THEN PlainFrames(selected.value, head, EmptyFrame)
                ELSE HoverFrames(selected.value, head, EmptyFrame)

(***************************************************************************)
(* cosd_scraper.py: the sections of a document and the walk over them      *)
(*                                                                         *)
(* A document is its section divs in document order: node k has a parent   *)
(* (0 for a div that lies in no other section div), a class attribute, of  *)
(* the tokens "section", "level<N>" and, on a tab set, "tabset", and an    *)
(* id.                                                                     *)
(***************************************************************************)

LevelTokens ==
    <<"level1", "level2", "level3", "level4", "level5", "level6", "level7",
      "level8", "level9">>

Nodes(d) == 1..d.n

RECURSIVE AncestorsOf(_, _)
AncestorsOf(d, k) ==
    IF d.parent[k] = 0 THEN {}
    ELSE {d.parent[k]} \cup AncestorsOf(d, d.parent[k])

\* The nodes of set S in document order.
RECURSIVE InOrder(_, _)
InOrder(S, from) ==
    IF S = {} THEN <<>>
    ELSE IF from \in S THEN <<from>> \o InOrder(S \ {from}, from + 1)
    ELSE InOrder(S, from + 1)

\* soup.find("div", id=name): the first div of that id, 0 when none.
FindById(d, name) ==
    IF \E k \in Nodes(d) : d.id[k] = name
    THEN CHOOSE k \in Nodes(d) :
             d.id[k] = name /\ \A j \in 1..(k - 1) : d.id[j] # name
    ELSE 0

IdsOf(d, seq) == [i \in 1..Len(seq) |-> d.id[seq[i]]]

\* get_file_section_names: the ids of the divs whose class attribute is
\* "section level2" and nothing more, in document order.
get_file_section_names(d) ==
    IdsOf(d, InOrder({k \in Nodes(d) : d.class[k] = <<"section", "level2">>}, 1))

\* Line 50: the level of a div, read from the last character of the first
\* token of its class that starts with "level".
LevelOfClass(class) ==
    CHOOSE l \in 1..Len(LevelTokens) :
        \E i \in 1..Len(class) :
            /\ class[i] = LevelTokens[l]
            /\ \A j \in 1..(i - 1) : class[j] \notin
                   {LevelTokens[m] : m \in 1..Len(LevelTokens)}

ChildDivsAnyLevel(d, parent_div) ==
    {k \in Nodes(d) : parent_div \in AncestorsOf(d, k)}

\* Line 53: the divs inside parent_div whose class attribute starts with
\* "section level<N+1>", N the level of parent_div.
ChildDivs(d, parent_div) ==
    LET child_level == LevelOfClass(d.class[parent_div]) + 1
    IN  {k \in Nodes(d) :
            /\ parent_div \in AncestorsOf(d, k)
            /\ child_level <= Len(LevelTokens)
            /\ IsPrefixAt(d.class[k], <<"section", LevelTokens[child_level]>>, 1)}

\* get_file_child_div_names: the ids of those divs, in document order.
get_file_child_div_names(d, parent_div_name) ==
    IdsOf(d, InOrder(ChildDivs(d, FindById(d, parent_div_name)), 1))

\* Line 213: whether the div of that id lies inside a div of class tabset.
InTabset(d, name) ==
    \E a \in AncestorsOf(d, FindById(d, name)) :
        \E i \in 1..Len(d.class[a]) : d.class[a][i] = "tabset"

\* Line 215: the key a tab's table is stored under.
DatasetKey(tab_name) == Replace(tab_name, <<"-">>, <<"_">>)

\* Lines 210-215, for one subsection: the tabs that are read.
TabsRead(d, tab_names) == SelectSeq(tab_names, LAMBDA t : InTabset(d, t))

RECURSIVE TabsOfSubsections(_, _)
TabsOfSubsections(d, subsection_names) ==
    IF Len(subsection_names) = 0 THEN <<>>
    ELSE TabsRead(d, get_file_child_div_names(d, subsection_names[1]))
         \o TabsOfSubsections(d, Tail(subsection_names))

RECURSIVE TabsOfSections(_, _)
TabsOfSections(d, section_names) ==
    IF Len(section_names) = 0 THEN <<>>
    ELSE TabsOfSubsections(d, get_file_child_div_names(d, section_names[1]))
         \o TabsOfSections(d, Tail(section_names))

\* Lines 201-215: the ids of the tabs load_data_from_tab is called on, in
\* the order of the calls.
TabsVisited(d) == TabsOfSections(d, get_file_section_names(d))

\* Lines 202 and 215: the dictionary filled by the calls; an entry written
\* twice keeps what was written last.  Here an entry holds the id of the
\* tab its table was read from.
RECURSIVE Extracted(_, _)
Extracted(visited, extracted_data) ==
    IF Len(visited) = 0 THEN extracted_data
    ELSE LET key == DatasetKey(visited[1])
             rest == [k \in DOMAIN extracted_data \ {key} |-> extracted_data[k]]
         IN  Extracted(Tail(visited), rest @@ (key :> visited[1]))

EmptyDict == [k \in {} |-> <<>>]

(***************************************************************************)
(* cosd_scraper.py: file_name_metadata                                     *)
(***************************************************************************)

\* What strptime reads with %Y and with %m: a year of four digits, a month
\* of one or two digits from 1 to 12.  Any other text raises ValueError.
YearsRead == [t \in {<<"2023">>, <<"2024">>} |->
                 IF t = <<"2023">> THEN 2023 ELSE 2024]
MonthsRead == [t \in {<<"04">>, <<"4">>, <<"12">>} |->
                 IF t = <<"12">> THEN 12 ELSE 4]

\* file_name_metadata: the "_FIX" marker is dropped, the name before
\* ".html" is cut at every "_"; the first two pieces give the date, set to
\* the first of the month, the third the organisation code, the others,
\* joined by spaces, the organisation name.
file_name_metadata(file_name) ==
    LET unfixed == Replace(file_name, <<"_", "FIX">>, <<>>)
        file_name_parts == Split(Split(unfixed, <<".html">>)[1], <<"_">>)
    IN  IF Len(file_name_parts) < 2 THEN Raised("IndexError")
        ELSE IF \/ file_name_parts[1] \notin DOMAIN YearsRead
                \/ file_name_parts[2] \notin DOMAIN MonthsRead
        THEN Raised("ValueError")
        ELSE IF Len(file_name_parts) < 3 THEN Raised("IndexError")
        ELSE Returned(
               [date |-> [year |-> YearsRead[file_name_parts[1]],
                          month |-> MonthsRead[file_name_parts[2]],
                          day |-> 1],
                org_code |-> file_name_parts[3],
                org_name |-> JoinWith(SubSeq(file_name_parts, 4,
                                             Len(file_name_parts)), <<" ">>)])

C_DATE_DATA == <<"DATE_DATA">>
C_ORG_CODE == <<"ORG_CODE">>
C_ORG_NAME == <<"ORG_NAME">>

(***************************************************************************)
(* cosd_scraper.py: extract_all_tabs_data                                  *)
(***************************************************************************)

\* Lines 210-215: the tabs visited are read in turn into the dictionary;
\* the first tab that cannot be read ends the extraction.  nodes gives the
\* content of the div of each id.
RECURSIVE ReadTabs(_, _, _)
ReadTabs(visited, nodes, extracted_data) ==
    IF Len(visited) = 0 THEN Returned(extracted_data)
    ELSE LET tab_name == visited[1]
             df == load_data_from_tab(tab_name, nodes[tab_name])
             key == DatasetKey(tab_name)
             rest == [k \in DOMAIN extracted_data \ {key} |-> extracted_data[k]]
         IN  IF df.raised THEN df
             ELSE ReadTabs(Tail(visited), nodes, rest @@ (key :> df.value))

StampDateOnly(meta, extracted_data) ==
    [key \in DOMAIN extracted_data |->
        SetScalarColumn(extracted_data[key], C_DATE_DATA, meta.date)]

\* Lines 220-223: the three columns set on every table of the dictionary.
StampAll(meta, extracted_data) ==
    [key \in DOMAIN extracted_data |->
        SetScalarColumn(
            SetScalarColumn(
                SetScalarColumn(extracted_data[key], C_DATE_DATA, meta.date),
                C_ORG_CODE, meta.org_code),
            C_ORG_NAME, meta.org_name)]

\* extract_all_tabs_data
extract_all_tabs_data(d, nodes, file_name) ==
    LET extracted_data == ReadTabs(TabsVisited(d), nodes, EmptyDict)
        meta == file_name_metadata(file_name)
    IN  IF extracted_data.raised THEN extracted_data
        ELSE IF meta.raised THEN meta
        ELSE Returned(StampAll(meta.value, extracted_data.value))

(***************************************************************************)
(* cosd_scraper.py: extract_overall_ranking_data                           *)
(***************************************************************************)

\* str.upper() on the symbols of the column, schema and table names.
UpperPairs ==
    <<<<"a", "A">>, <<"b", "B">>, <<"p", "P">>, <<"e", "E">>, <<"r", "R">>,
      <<"Org", "ORG">>, <<"name", "NAME">>, <<"Rate", "RATE">>,
      <<"rank", "RANK">>, <<"Data", "DATA">>, <<"quality", "QUALITY">>,
      <<"Trust", "TRUST">>, <<"per", "PER">>, <<"Cases", "CASES">>,
      <<"overall", "OVERALL">>, <<"ranking", "RANKING">>, <<"tab", "TAB">>,
      <<"one", "ONE">>, <<"two", "TWO">>, <<"three", "THREE">>,
      <<"four", "FOUR">>, <<"five", "FIVE">>, <<"six", "SIX">>,
      <<"seven", "SEVEN">>, <<"stage", "STAGE">>, <<"by", "BY">>,
      <<"cancer", "CANCER">>, <<"group", "GROUP">>, <<"in", "IN">>,
      <<"lung", "LUNG">>, <<"analyst_managed", "ANALYST_MANAGED">>,
      <<"destination_schema", "DESTINATION_SCHEMA">>,
      <<"cancer__cosd_html", "CANCER__COSD_HTML">>>>

UpperSymbol(c) ==
    IF \E i \in 1..Len(UpperPairs) : UpperPairs[i][1] = c
    THEN UpperPairs[CHOOSE i \in 1..Len(UpperPairs) : UpperPairs[i][1] = c][2]
    ELSE c

Upper(x) == [i \in 1..Len(x) |-> UpperSymbol(x[i])]

\* A normalisation that takes the brackets off "(%)" and keeps the "%".
NormalizeKeepingPercent(x) ==
    Replace(Replace(Upper(x), <<" ">>, <<"_">>), <<"(", "%", ")">>, <<"%">>)

\* Line 271: a column name in upper case, its spaces made "_", its "(%)"
\* made "PER".
Normalize(x) ==
    Replace(Replace(Upper(x), <<" ">>, <<"_">>), <<"(", "%", ")">>, <<"PER">>)

\* Lines 264-269: the raw column names.  A payload with exactly one column
\* definition is of the older structure, its names the texts between
\* "<th>" and "</th>" of the container; otherwise the names are those of
\* the column definitions but the first.
ColumnNamesRaw(payload) ==
    IF Len(payload.columnDefs) = 1
    THEN LET cols == Tail(Split(payload.container, <<"<th>">>))
         IN  [i \in 1..Len(cols) |-> Split(cols[i], <<"</th>">>)[1]]
    ELSE [i \in 1..(Len(payload.columnDefs) - 1) |-> payload.columnDefs[i + 1]]

\* pd.DataFrame(data) for a list of lists of one length: a row per list,
\* the columns numbered from 0.
FrameFromRows(data) ==
    [columns |-> IF Len(data) = 0 THEN <<>>
                 ELSE [j \in 1..Len(data[1]) |-> j - 1],
     rows |-> data]

\* DataFrame.transpose(): the rows become the columns.
Transpose(df) ==
    [columns |-> [i \in 1..Len(df.rows) |-> i - 1],
     rows |-> [j \in 1..Len(df.columns) |->
                 [i \in 1..Len(df.rows) |-> df.rows[i][j]]]]

\* df.columns = names: ValueError unless there is a name per column.
SetColumns(df, names) ==
    IF Len(names) # Len(df.columns) THEN Raised("ValueError")
    ELSE Returned([columns |-> names, rows |-> df.rows])

DropAt(seq, at) == SubSeq(seq, 1, at - 1) \o SubSeq(seq, at + 1, Len(seq))
PutAt(seq, at, v) == SubSeq(seq, 1, at - 1) \o <<v>> \o SubSeq(seq, at, Len(seq))

\* df.insert(loc, name, df.pop(name)) for a column the frame has once: the
\* column is moved to position loc (counted from 0).
MoveColumn(df, name, loc) ==
    LET at == ColumnIndex(df, name)
    IN  [columns |-> PutAt(DropAt(df.columns, at), loc + 1, name),
         rows |-> [i \in 1..Len(df.rows) |->
                     PutAt(DropAt(df.rows[i], at), loc + 1, df.rows[i][at])]]

IdentityLast(df, section_id, section_num, section_name) ==
    SetScalarColumn(
        SetScalarColumn(
            SetScalarColumn(df, C_SECTION_ID, section_id),
            C_SECTION_NUM, section_num),
        C_SECTION_NAME, section_name)

\* Lines 280-287: the three identity columns are set, then moved to the
\* front.
IdentityFirst(df, section_id, section_num, section_name) ==
    MoveColumn(
        MoveColumn(
            MoveColumn(
                SetScalarColumn(
                    SetScalarColumn(
                        SetScalarColumn(df, C_SECTION_ID, section_id),
                        C_SECTION_NUM, section_num),
                    C_SECTION_NAME, section_name),
                C_SECTION_ID, 0),
            C_SECTION_NUM, 1),
        C_SECTION_NAME, 2)

\* extract_overall_ranking_data.  rdoc is what the document holds of the
\* ranking table: whether there is a div of id "appendices", the level-4
\* divs inside it whose id ends with "overall-ranking" (the first is
\* taken), each with its id, its h4 heading, its JSON script and payload.
extract_overall_ranking_data(rdoc, file_name) ==
    IF ~rdoc.appendices THEN Raised("AttributeError")
    ELSE IF Len(rdoc.sections) = 0 THEN Raised("Exception")
    ELSE
    LET section_div == rdoc.sections[1]
    IN  IF ~section_div.heading.present THEN Raised("AttributeError")
        ELSE IF section_div.script = "none" THEN Raised("AttributeError")
        ELSE IF section_div.script = "unparseable" THEN Raised("JSONDecodeError")
        ELSE
        LET section_heading == section_div.heading.text
            section_num == Split(section_heading, <<" ">>)[1]
            section_name == SubSeq(section_heading, Len(section_num) + 2,
                                   Len(section_heading))
            column_names_raw == ColumnNamesRaw(section_div.payload)
            column_names == [i \in 1..Len(column_names_raw) |->
                                Normalize(column_names_raw[i])]
            named == SetColumns(Transpose(FrameFromRows(section_div.payload.data)),
                                column_names)
            meta == file_name_metadata(file_name)
        IN  IF named.raised THEN named
            ELSE IF meta.raised THEN meta
            ELSE Returned(
                   SetScalarColumn(
                       IdentityFirst(named.value,
                                     Replace(section_div.id, <<"-">>, <<"_">>),
                                     section_num, section_name),
                       C_DATE_DATA, meta.value.date))

(***************************************************************************)
(* SpecTab: load_data_from_tab on the payloads of a bounded set            *)
(***************************************************************************)

MaxTitleLen == 4
MaxPoints == 2
MaxSeries == 2

TitleAlphabet == {"a", " ", "(", ")"}
Titles == SeqsUpTo(TitleAlphabet, MaxTitleLen)

HGoodA == <<"Numerator:", " ", "12", "<", "br>", "Denominator:", " ", "100">>
HGoodB == <<"<", "b>", "Numerator:", "7", " ", "<", "br>",
            "Denominator:", " ", "9", "<", "extra>">>
HNoNum == <<"Rate:", "3", "<", "br>", "Denominator:", "5">>
HNoDen == <<"Numerator:", "5", "<", "br>">>

\* The numerator and the denominator written in a hover text.
WrittenIn(h) ==
    IF h = HGoodA THEN [num |-> <<"12">>, den |-> <<"100">>]
    ELSE IF h = HGoodB THEN [num |-> <<"7">>, den |-> <<"9">>]
    ELSE [num |-> <<>>, den |-> <<>>]

HasMarkers(h) == h \in {HGoodA, HGoodB}

GoodHovers(n) == [i \in 1..n |-> IF i % 2 = 1 THEN HGoodA ELSE HGoodB]

NoHover == [present |-> FALSE, list |-> FALSE, items |-> <<>>]
HoverOptions ==
    {NoHover}
    \cup {[present |-> TRUE, list |-> FALSE, items |-> <<h>>] :
             h \in {HGoodA, HNoDen}}
    \cup {[present |-> TRUE, list |-> TRUE, items |-> GoodHovers(n)] :
             n \in {1, MaxPoints}}
    \cup {[present |-> TRUE, list |-> TRUE,
           items |-> [GoodHovers(MaxPoints) EXCEPT ![1] = HNoNum]]}

XValues(n) == [i \in 1..n |-> i]
YValues(n) == [i \in 1..n |-> 10 + i]
\* The x and y of an entry: lists of one length, lists of two lengths, two
\* scalars, a scalar and a list.
XYOptions ==
    {[x |-> ListCell(XValues(n)), y |-> ListCell(YValues(n))] :
        n \in {0, 1, MaxPoints}}
    \cup {[x |-> ListCell(XValues(MaxPoints)),
           y |-> ListCell(YValues(MaxPoints - 1))],
          [x |-> ScalarCell(1), y |-> ScalarCell(11)],
          [x |-> ScalarCell(1), y |-> ListCell(YValues(1))]}

CatNames == <<"cat1", "cat2", "cat3", "cat4", "cat5">>
EntryShapes ==
    {[x |-> xy.x, y |-> xy.y, hover |-> h] : xy \in XYOptions, h \in HoverOptions}
Named(shapes) ==
    [k \in 1..Len(shapes) |->
        [name |-> <<CatNames[k]>>, x |-> shapes[k].x, y |-> shapes[k].y,
         hover |-> shapes[k].hover]]

PlainEntry == [x |-> ListCell(XValues(1)), y |-> ListCell(YValues(1)),
               hover |-> NoHover]
Heading == [present |-> TRUE, text |-> <<"1.2", " ", "Stage", " ", "data">>]
NoHeading == [present |-> FALSE, text |-> <<>>]
TabId == <<"stage", "-", "data">>

\* Titles whose plot name can be read.
PlainTitles == {<<"a">>, <<"(", "a", ")", " ", "a">>}

\* The payloads: every series shape of a scatter and of a bar chart, the
\* chart types under the readable titles, every title over one plain
\* series, and the nodes with no heading or no readable script.
TabInputs ==
    {[heading |-> Heading, script |-> "json", title |-> <<"a">>, type |-> ty,
      data |-> Named(d)] :
        ty \in {"scatter", "bar"},
        d \in SeqsUpTo(EntryShapes, MaxSeries)}
    \cup {[heading |-> Heading, script |-> "json", title |-> t, type |-> ty,
           data |-> Named(<<PlainEntry, PlainEntry>>)] :
             t \in PlainTitles, ty \in {"scatter", "bar", "pie"}}
    \cup {[heading |-> Heading, script |-> "json", title |-> t, type |-> "bar",
           data |-> Named(<<PlainEntry>>)] : t \in Titles}
    \cup {[heading |-> h, script |-> sc, title |-> <<"a">>, type |-> "bar",
           data |-> Named(<<PlainEntry>>)] :
             h \in {Heading, NoHeading},
             sc \in {"none", "unparseable", "json"}}

NotCalled == [called |-> FALSE]
Called(res) == [called |-> TRUE, res |-> res]

IdleBatch ==
    /\ unprocessed = Unused /\ archive = Unused /\ csvs = Unused
    /\ wh = Unused /\ pc = Unused /\ files = Unused /\ idx = Unused
    /\ processing_flag = Unused /\ df_keys = Unused /\ log = Unused
    /\ runs = Unused /\ drops = Unused /\ faults = Unused
    /\ crash = Unused
IdleUp == up_in = Unused /\ up_out = Unused
IdleNav == doc = Unused /\ nav_out = Unused
IdleTab == tab_in = Unused /\ tab_out = Unused
IdleEx == ex_in = Unused /\ ex_out = Unused
IdleName == name_in = Unused /\ name_out = Unused

InitTab ==
    /\ tab_in \in TabInputs
    /\ tab_out = NotCalled
    /\ IdleBatch /\ IdleUp /\ IdleNav /\ IdleEx /\ IdleName

\* The tab is read.
LoadTab ==
    /\ ~tab_out.called
    /\ tab_out' = Called(load_data_from_tab(TabId, tab_in))
    /\ UNCHANGED <<tab_in, batchVars, upVars, navVars, exVars, nameVars>>

NextTab == LoadTab
SpecTab == InitTab /\ [][NextTab]_vars

(***************************************************************************)
(* Claims about load_data_from_tab (checked under SpecTab)                 *)
(***************************************************************************)

\* The first position from `from` on where s holds c, 0 when there is none.
FirstAt(s, c, from) ==
    IF \E i \in from..Len(s) : s[i] = c
    THEN CHOOSE i \in from..Len(s) :
             s[i] = c /\ \A j \in from..(i - 1) : s[j] # c
    ELSE 0

\* The call has been made on a node whose heading and script are readable.
TabRead == tab_out.called /\ tab_in.heading.present /\ tab_in.script = "json"

\* The call whose only variable part is the title: one plain bar series.
TitleCase ==
    /\ TabRead
    /\ tab_in.type = "bar"
    /\ tab_in.data = Named(<<PlainEntry>>)

PlotNameOut == CellOf(tab_out.res.value, 1, C_PLOT_NAME)

\* C9 as stated: the plot name is the whole title when the title has no
\* "(", and otherwise everything after the first ")" that follows the first
\* "(", trimmed, later parentheses included.
C9_AsStated ==
    TitleCase =>
        LET t == tab_in.title
            open == FirstAt(t, "(", 1)
            close == IF open = 0 THEN 0 ELSE FirstAt(t, ")", open + 1)
        IN  IF open = 0
            THEN ~tab_out.res.raised /\ PlotNameOut = t
            ELSE close # 0 =>
                   /\ ~tab_out.res.raised
                   /\ PlotNameOut = Strip(SubSeq(t, close + 1, Len(t)))

\* C9, amended: the plot name is the whole title when the title has no "(".
\* Otherwise look at the piece of the title between the first "(" and the
\* next "(" (or the end of the title): the plot name is the text after the
\* first ")" of that piece, up to the next ")" of the piece or the end of
\* the piece, trimmed; and when the piece holds no ")" the extraction fails.
C9_PlotName ==
    TitleCase =>
        LET t == tab_in.title
            open == FirstAt(t, "(", 1)
            nextOpen == IF open = 0 THEN 0 ELSE FirstAt(t, "(", open + 1)
            pieceEnd == IF nextOpen = 0 THEN Len(t) ELSE nextOpen - 1
            piece == SubSeq(t, 1, pieceEnd)
            close == IF open = 0 THEN 0 ELSE FirstAt(piece, ")", open + 1)
            nextClose == IF close = 0 THEN 0 ELSE FirstAt(piece, ")", close + 1)
            nameEnd == IF nextClose = 0 THEN pieceEnd ELSE nextClose - 1
        IN  IF open = 0
            THEN ~tab_out.res.raised /\ PlotNameOut = t
            ELSE IF close = 0
            THEN tab_out.res.raised
            ELSE /\ ~tab_out.res.raised
                 /\ PlotNameOut = Strip(SubSeq(t, close + 1, nameEnd))

\* C9's case: a title with a parenthesised part, text after it and a later
\* parenthesis, read into a plot name that is not empty.
C9_Witness ==
    /\ TitleCase
    /\ ~tab_out.res.raised
    /\ LET t == tab_in.title
           open == FirstAt(t, "(", 1)
           close == IF open = 0 THEN 0 ELSE FirstAt(t, ")", open + 1)
       IN  /\ open # 0 /\ close # 0
           /\ \E i \in (close + 1)..Len(t) : t[i] \in {"(", ")"}
           /\ PlotNameOut # <<>>
           /\ PlotNameOut # Strip(SubSeq(t, close + 1, Len(t)))

\* The entries load_data_from_tab reads the rows from, for a scatter or a
\* bar plot: all but the first, or all.
Selected ==
    IF tab_in.type = "scatter"
    THEN SubSeq(tab_in.data, 2, Len(tab_in.data))
    ELSE tab_in.data

IsPlain(df) == ~HasColumn(df, C_NUMERATOR) /\ ~HasColumn(df, C_DENOMINATOR)
CarriesHover(df) == HasColumn(df, C_NUMERATOR) /\ HasColumn(df, C_DENOMINATOR)

\* The value an entry gives for point i: that of its list, or its scalar.
PointOf(cell, i) == IF cell.list THEN cell.items[i] ELSE cell.items[1]

\* The number of rows a plain entry gives: the one length of its lists;
\* -1 when pandas has no frame for it.
PlainLength(e) ==
    IF e.x.list /\ e.y.list
    THEN IF Len(e.x.items) = Len(e.y.items) THEN Len(e.x.items) ELSE -1
    ELSE IF e.x.list THEN Len(e.x.items)
    ELSE IF e.y.list THEN Len(e.y.items)
    ELSE -1

RECURSIVE TotalLength(_)
TotalLength(entries) ==
    IF Len(entries) = 0 THEN 0
    ELSE PlainLength(entries[1]) + TotalLength(Tail(entries))

\* Row r of the frame is point i of entry e, read as a plain record.
IsPlainRowOf(df, r, e, i) ==
    /\ CellOf(df, r, C_CATEGORY) = e.name
    /\ CellOf(df, r, C_X) = PointOf(e.x, i)
    /\ CellOf(df, r, C_Y) = PointOf(e.y, i)

\* Row r carries the numerator and the denominator written in hover text h.
CarriesWritten(df, r, h) ==
    /\ CellOf(df, r, C_NUMERATOR) = WrittenIn(h).num
    /\ CellOf(df, r, C_DENOMINATOR) = WrittenIn(h).den

\* The call has been made on a scatter or bar chart with a readable title.
SeriesCase ==
    /\ TabRead
    /\ tab_in.type \in {"scatter", "bar"}
    /\ tab_in.title \in PlainTitles

\* C8 as stated: plain records are what is emitted exactly when the chart
\* type is not bar or every selected entry lacks a hovertemplate; with a
\* bar chart whose entries carry hover texts every row carries the
\* numerator and denominator of its entry's hover text, and an entry whose
\* hover text lacks a marker makes the extraction fail.
C8_AsStated ==
    (SeriesCase /\ \A k \in 1..Len(Selected) : PlainLength(Selected[k]) >= 1) =>
        LET res == tab_out.res
            anyHover == \E k \in 1..Len(Selected) : Selected[k].hover.present
            allMarked == \A k \in 1..Len(Selected) :
                            \A i \in 1..Len(Selected[k].hover.items) :
                                HasMarkers(Selected[k].hover.items[i])
        IN  /\ (~res.raised /\ Len(res.value.rows) > 0) =>
                (IsPlain(res.value) <=> (tab_in.type # "bar" \/ ~anyHover))
            /\ (tab_in.type = "bar" /\ anyHover /\ ~allMarked) => res.raised

\* C8, amended: plain records are what is emitted exactly when the chart
\* type is scatter, or it is bar and the FIRST selected entry lacks a
\* hovertemplate (the other entries are not looked at), and they are then
\* emitted for every entry whose x and y give one length.  With a bar chart
\* whose first entry carries a hovertemplate every emitted row carries the
\* numerator and the denominator parsed from its own entry's hover text,
\* and an entry with no hovertemplate, or one whose hover text lacks the
\* "Numerator:" or the "Denominator:" marker, makes the extraction fail.
C8_HoverDecidedByFirst ==
    (SeriesCase /\ Len(Selected) > 0) =>
        LET res == tab_out.res
            plainCase == tab_in.type = "scatter" \/ ~Selected[1].hover.present
            allHover == \A k \in 1..Len(Selected) : Selected[k].hover.present
            allMarked == \A k \in 1..Len(Selected) :
                            \A i \in 1..Len(Selected[k].hover.items) :
                                HasMarkers(Selected[k].hover.items[i])
            allShaped == \A k \in 1..Len(Selected) : PlainLength(Selected[k]) >= 0
        IN  /\ ~res.raised => (IsPlain(res.value) <=> plainCase)
            /\ ~res.raised => (CarriesHover(res.value) <=> ~plainCase)
            /\ (plainCase /\ allShaped) =>
                  /\ ~res.raised
                  /\ Len(res.value.rows) = TotalLength(Selected)
                  /\ \A r \in 1..Len(res.value.rows) :
                        \E k \in 1..Len(Selected) :
                            \E i \in 1..PlainLength(Selected[k]) :
                                IsPlainRowOf(res.value, r, Selected[k], i)
            /\ (plainCase /\ ~allShaped) => res.raised
            /\ (~plainCase /\ ~res.raised) =>
                  \A r \in 1..Len(res.value.rows) :
                      \E k \in 1..Len(Selected) :
                          \E i \in 1..Len(Selected[k].hover.items) :
                              /\ IsPlainRowOf(res.value, r, Selected[k], i)
                              /\ CarriesWritten(res.value, r,
                                                Selected[k].hover.items[i])
            /\ (~plainCase /\ (~allHover \/ ~allMarked)) => res.raised

\* C8's case: a bar chart of two entries that both carry hover texts, read
\* into rows that carry numerators and denominators.
C8_Witness ==
    /\ TabRead
    /\ tab_in.type = "bar"
    /\ Len(tab_in.data) = 2
    /\ \A k \in 1..2 : tab_in.data[k].hover.present
    /\ ~tab_out.res.raised
    /\ Len(tab_out.res.value.rows) >= 3
    /\ CarriesHover(tab_out.res.value)

(***************************************************************************)
(* SpecNav: the walk over the sections of the documents of a bounded set   *)
(***************************************************************************)

MaxNodes == 4

NodeWords == <<"one", "two", "three", "four", "five", "six", "seven">>

\* parent lists the divs in document order: a div follows the div before
\* it as its child, or as a later child of one of that div's ancestors, or
\* as a new top div.
RECURSIVE ChainOf(_, _)
ChainOf(parent, k) ==
    IF k = 0 THEN {0} ELSE {k} \cup ChainOf(parent, parent[k])

InDocumentOrder(n, parent) ==
    /\ \A k \in 1..n : parent[k] < k
    /\ \A k \in 2..n : parent[k] \in ChainOf(parent, k - 1)

RECURSIVE DepthOf(_, _)
DepthOf(parent, k) ==
    IF parent[k] = 0 THEN 0 ELSE 1 + DepthOf(parent, parent[k])

\* The pairs of divs whose ids differ by "-" against "_" only; <<0, 0>> for
\* a document with no such pair.
TwinChoices(n) == {<<0, 0>>} \cup {<<i, j>> : i \in 1..n, j \in 1..n}

\* A well-formed document: the ids are unique, and the level of a div is
\* one more than the level of the div it lies in; the top divs are of level
\* top.
MakeDoc(n, parent, top, tabset, twin) ==
    [n |-> n,
     parent |-> parent,
     class |-> [k \in 1..n |->
                  <<"section", LevelTokens[top + DepthOf(parent, k)]>>
                  \o (IF tabset[k] THEN <<"tabset">> ELSE <<>>)],
     id |-> [k \in 1..n |->
                  IF k = twin[2] THEN <<NodeWords[twin[1]], "_", "tab">>
                  ELSE <<NodeWords[k], "-", "tab">>]]

InitNav ==
    /\ \E n \in 1..MaxNodes :
         \E parent \in [1..n -> 0..(n - 1)] :
           /\ InDocumentOrder(n, parent)
           /\ \E top \in {1, 2}, tabset \in [1..n -> BOOLEAN],
                 twin \in TwinChoices(n) :
                /\ twin[1] < twin[2] \/ twin = <<0, 0>>
                /\ doc = MakeDoc(n, parent, top, tabset, twin)
    /\ nav_out = NotCalled
    /\ IdleBatch /\ IdleUp /\ IdleTab /\ IdleEx /\ IdleName

\* The children of one div are listed.
ListChildren ==
    /\ ~nav_out.called
    /\ \E k \in Nodes(doc) :
         nav_out' = [called |-> TRUE, op |-> "children", of |-> k,
                     names |-> get_file_child_div_names(doc, doc.id[k])]
    /\ UNCHANGED <<doc, batchVars, upVars, tabVars, exVars, nameVars>>

\* The tabs of the document are walked, each tab found being read.
WalkTabs ==
    /\ ~nav_out.called
    /\ LET visited == TabsVisited(doc)
       IN  nav_out' = [called |-> TRUE, op |-> "walk", visited |-> visited,
                       extracted |-> Extracted(visited, EmptyDict)]
    /\ UNCHANGED <<doc, batchVars, upVars, tabVars, exVars, nameVars>>

NextNav == ListChildren \/ WalkTabs
SpecNav == InitNav /\ [][NextNav]_vars

(***************************************************************************)
(* Claims about the walk (checked under SpecNav)                           *)
(***************************************************************************)

LevelOfNode(k) == LevelOfClass(doc.class[k])

\* The tab-bearing nodes: the section divs that lie inside a tab set.
TabBearing ==
    {k \in Nodes(doc) :
        \E a \in AncestorsOf(doc, k) : doc.class[a][Len(doc.class[a])] = "tabset"}

\* How many times id name is among the tabs visited.
TimesVisited(name) ==
    Cardinality({i \in 1..Len(nav_out.visited) : nav_out.visited[i] = name})

Listed == nav_out.called /\ nav_out.op = "children"
Walked == nav_out.called /\ nav_out.op = "walk"

\* Every name listed for a div is the id of a div one level below it.
ChildrenOneLevelDown ==
    Listed =>
        \A i \in 1..Len(nav_out.names) :
            \E k \in Nodes(doc) :
                /\ doc.id[k] = nav_out.names[i]
                /\ nav_out.of \in AncestorsOf(doc, k)
                /\ LevelOfNode(k) = LevelOfNode(nav_out.of) + 1

Reached ==
    {k \in TabBearing :
        /\ LevelOfNode(k) = 4
        /\ \E sub \in AncestorsOf(doc, k) :
             /\ LevelOfNode(sub) = 3
             /\ \E sec \in AncestorsOf(doc, sub) :
                  doc.class[sec] = <<"section", "level2">>}

HasUnderscore(name) == \E i \in 1..Len(name) : name[i] = "_"

MaxCols == 3
MaxRows == 2

\* Raw column names of a ranking payload, and what line 271 is to make of
\* each of them.
RawNames ==
    <<<<"Trust", " ", "name">>, <<"Rate", " ", "(", "%", ")">>, <<"rank">>,
      <<"Data", " ", "quality", " ", "(", "%", ")">>, <<"Cases">>,
      <<"per", " ", "Trust">>>>
NormalNames ==
    <<<<"TRUST", "_", "NAME">>, <<"RATE", "_", "PER">>, <<"RANK">>,
      <<"DATA", "_", "QUALITY", "_", "PER">>, <<"CASES">>,
      <<"PER", "_", "TRUST">>>>
RowIndexName == <<" ">>

RankHeading == [present |-> TRUE, text |-> <<"9.1", " ", "Overall", " ", "ranking">>]
RankId == <<"a1", "-", "overall", "-", "ranking">>

\* The value of entry i of the data at position j.
DataValue(i, j) == 100 * i + j
DataOf(nData, m) == [i \in 1..nData |-> [j \in 1..m |-> DataValue(i, j)]]

\* A payload whose column definitions are the row index and nNames names.
CurrentPayload(nDefs, nData, m) ==
    [columnDefs |-> IF nDefs = 0 THEN <<>>
                    ELSE <<RowIndexName>> \o SubSeq(RawNames, 1, nDefs - 1),
     container |-> <<"<table>", "</table>">>,
     data |-> DataOf(nData, m)]

RECURSIVE HeaderCells(_)
HeaderCells(names) ==
    IF Len(names) = 0 THEN <<>>
    ELSE <<"<th>">> \o names[1] \o <<"</th>">> \o HeaderCells(Tail(names))

\* A payload of the older structure: one column definition, the names in
\* the container.
LegacyPayload(nNames, nData, m) ==
    [columnDefs |-> <<RowIndexName>>,
     container |-> <<"<table>", "<thead>", "<tr>">>
                   \o HeaderCells(SubSeq(RawNames, 1, nNames))
                   \o <<"</tr>", "</thead>", "</table>">>,
     data |-> DataOf(nData, m)]

RankSection(heading, script, payload) ==
    [id |-> RankId, heading |-> heading, script |-> script, payload |-> payload]

GoodPayload == CurrentPayload(MaxCols + 1, MaxCols, MaxRows)
GoodRankDoc ==
    [appendices |-> TRUE,
     sections |-> <<RankSection(RankHeading, "json", GoodPayload)>>]

RankDocs ==
    {[appendices |-> TRUE,
      sections |-> <<RankSection(RankHeading, "json", pl)>>] :
        pl \in {CurrentPayload(nDefs, nData, m) :
                   nDefs \in {0} \cup 2..(MaxCols + 1),
                   nData \in 0..MaxCols, m \in 0..MaxRows}
               \cup {LegacyPayload(nNames, nData, m) :
                   nNames \in 0..MaxCols, nData \in 0..MaxCols, m \in {MaxRows}}}
    \cup {[appendices |-> a, sections |-> secs] :
            a \in BOOLEAN,
            secs \in {<<>>,
                      <<RankSection(RankHeading, "json", GoodPayload),
                        RankSection(NoHeading, "none", GoodPayload)>>}}
    \cup {[appendices |-> TRUE, sections |-> <<RankSection(h, sc, GoodPayload)>>] :
            h \in {RankHeading, NoHeading},
            sc \in {"none", "unparseable", "json"}}

\* File names YEAR_MONTH_ORGCODE_ORGNAME[_FIX].html, and names that are
\* too short.
OrgNames == {<<<<"Example", " ", "Trust">>>>, <<<<"North">>, <<"Trust">>>>}
MadeNames ==
    [year : {<<"2023">>, <<"23">>}, month : {<<"04">>, <<"4">>, <<"13">>},
     code : {<<"ABC">>}, words : OrgNames, fix : BOOLEAN]
FileNameOf(made) ==
    made.year \o <<"_">> \o made.month \o <<"_">> \o made.code \o <<"_">>
    \o JoinWith(made.words, <<"_">>)
    \o (IF made.fix THEN <<"_", "FIX">> ELSE <<>>) \o <<".html">>
GoodMade ==
    [year |-> <<"2023">>, month |-> <<"04">>, code |-> <<"ABC">>,
     words |-> <<<<"Example", " ", "Trust">>>>, fix |-> FALSE]
BadMade == [GoodMade EXCEPT !.month = <<"13">>]
ShortNames == {<<"2023", "_", "04", ".html">>, <<"2023", ".html">>}

\* The document the tabs are walked in: a section, in it a tab set of two
\* tabs and a subsection that is no tab set.
ExDoc ==
    MakeDoc(5, <<0, 1, 2, 2, 1>>, 2, <<FALSE, TRUE, FALSE, FALSE, FALSE>>,
            <<0, 0>>)
ExTabIds == {ExDoc.id[3], ExDoc.id[4]}

HoverEntry == [x |-> ListCell(XValues(2)), y |-> ListCell(YValues(2)),
               hover |-> [present |-> TRUE, list |-> TRUE,
                          items |-> GoodHovers(2)]]
PlainTabNode ==
    [heading |-> Heading, script |-> "json", title |-> <<"a">>, type |-> "bar",
     data |-> Named(<<PlainEntry, PlainEntry>>)]
HoverTabNode == [PlainTabNode EXCEPT !.data = Named(<<HoverEntry>>)]
BadTabNode == [PlainTabNode EXCEPT !.heading = NoHeading]
TabNodes == {PlainTabNode, HoverTabNode, BadTabNode}
GoodTabs == [id \in ExTabIds |-> PlainTabNode]

ExInputs ==
    {[made |-> made, file_name |-> FileNameOf(made), rank |-> GoodRankDoc,
      nodes |-> GoodTabs] : made \in MadeNames}
    \cup {[made |-> GoodMade, file_name |-> f, rank |-> GoodRankDoc,
           nodes |-> GoodTabs] : f \in ShortNames}
    \cup {[made |-> GoodMade, file_name |-> FileNameOf(GoodMade), rank |-> r,
           nodes |-> GoodTabs] : r \in RankDocs}
    \cup {[made |-> made, file_name |-> FileNameOf(made), rank |-> GoodRankDoc,
           nodes |-> nodes] :
             made \in {GoodMade, BadMade}, nodes \in [ExTabIds -> TabNodes]}

InitEx ==
    /\ ex_in \in ExInputs
    /\ ex_out = [rank |-> NotCalled, tabs |-> NotCalled]
    /\ IdleBatch /\ IdleUp /\ IdleNav /\ IdleTab /\ IdleName

\* The ranking table of the file is extracted.
ExtractRanking ==
    /\ ~ex_out.rank.called
    /\ ex_out' = [ex_out EXCEPT !.rank =
                    Called(extract_overall_ranking_data(ex_in.rank,
                                                        ex_in.file_name))]
    /\ UNCHANGED <<ex_in, batchVars, upVars, navVars, tabVars, nameVars>>

\* The tab tables of the file are extracted.
ExtractTabs ==
    /\ ~ex_out.tabs.called
    /\ ex_out' = [ex_out EXCEPT !.tabs =
                    Called(extract_all_tabs_data(ExDoc, ex_in.nodes,
                                                 ex_in.file_name))]
    /\ UNCHANGED <<ex_in, batchVars, upVars, navVars, tabVars, nameVars>>

NextEx == ExtractRanking \/ ExtractTabs
SpecEx == InitEx /\ [][NextEx]_vars

(***************************************************************************)
(* Claims about the extracted tables                                       *)
(***************************************************************************)

\* What the file name was made of, read as the report's date and
\* organisation.
MadeDate == [year |-> 2023, month |-> 4, day |-> 1]
MadeOrgName == JoinWith(ex_in.made.words, <<" ">>)
NameReadable ==
    /\ ex_in.file_name = FileNameOf(ex_in.made)
    /\ ex_in.made.year = <<"2023">>
    /\ ex_in.made.month \in {<<"04">>, <<"4">>}

\* Both extractions of the file have returned a table.
BothExtracted ==
    /\ ex_out.rank.called /\ ~ex_out.rank.res.raised
    /\ ex_out.tabs.called /\ ~ex_out.tabs.res.raised

RankTable == ex_out.rank.res.value
TabTables == ex_out.tabs.res.value

\* Every row of df holds v in the column called name.
ColumnHolds(df, name, v) ==
    /\ HasColumn(df, name)
    /\ \A i \in 1..Len(df.rows) : CellOf(df, i, name) = v

CarriesAll(df) ==
    /\ ColumnHolds(df, C_DATE_DATA, MadeDate)
    /\ ColumnHolds(df, C_ORG_CODE, ex_in.made.code)
    /\ ColumnHolds(df, C_ORG_NAME, MadeOrgName)

\* C6 as stated: every table of a file, the ranking table too, carries the
\* date, the organisation code and the organisation name of the file name.
C6_AsStated ==
    (BothExtracted /\ NameReadable) =>
        /\ CarriesAll(RankTable)
        /\ \A key \in DOMAIN TabTables : CarriesAll(TabTables[key])

\* C6: every tab table of a file carries the date, the organisation code
\* and the organisation name read from the file name, the same in every row
\* of every tab table; the ranking table carries that same date in every row
\* and neither an organisation code nor an organisation name column.
C6_Metadata ==
    (BothExtracted /\ NameReadable) =>
        /\ \A key \in DOMAIN TabTables : CarriesAll(TabTables[key])
        /\ ColumnHolds(RankTable, C_DATE_DATA, MadeDate)
        /\ ~HasColumn(RankTable, C_ORG_CODE)
        /\ ~HasColumn(RankTable, C_ORG_NAME)

C6_Witness ==
    /\ BothExtracted /\ NameReadable
    /\ ex_in.made.fix /\ Len(ex_in.made.words) = 2
    /\ Len(RankTable.rows) = MaxRows
    /\ Cardinality(DOMAIN TabTables) = 2
    /\ \A key \in DOMAIN TabTables : Len(TabTables[key].rows) >= 2

\* The ranking extraction was run on a payload of the current encoding: two
\* or more column definitions, found in a section that is there with its
\* heading and its payload, in a file whose name can be read.
RankingCase ==
    /\ ex_out.rank.called
    /\ NameReadable
    /\ ex_in.rank.appendices
    /\ Len(ex_in.rank.sections) >= 1
    /\ ex_in.rank.sections[1].heading.present
    /\ ex_in.rank.sections[1].script = "json"
    /\ Len(ex_in.rank.sections[1].payload.columnDefs) >= 2

RankPayload == ex_in.rank.sections[1].payload

\* C10: for a payload of the current encoding with n column definitions,
\* a data array of n-1 entries of m values each gives a table of m rows whose
\* columns are COSD_SECTION_ID, COSD_SECTION_NUM, COSD_SECTION_NAME, then
\* the n-1 normalized names, each column holding the values of its entry,
\* then the date; a data array of another number of entries makes the
\* extraction fail.
C10_RankingShape ==
    RankingCase =>
        LET n == Len(RankPayload.columnDefs)
            res == ex_out.rank.res
        IN  IF Len(RankPayload.data) = n - 1
            THEN /\ ~res.raised
                 /\ Len(res.value.rows) = Len(RankPayload.data[1])
                 /\ res.value.columns =
                        <<C_SECTION_ID, C_SECTION_NUM, C_SECTION_NAME>>
                        \o SubSeq(NormalNames, 1, n - 1) \o <<C_DATE_DATA>>
                 /\ \A j \in 1..Len(res.value.rows) :
                        /\ Len(res.value.rows[j]) = n + 3
                        /\ \A i \in 1..(n - 1) :
                               res.value.rows[j][3 + i] = RankPayload.data[i][j]
            ELSE res.raised /\ res.value = "ValueError"

C10_Witness ==
    /\ RankingCase
    /\ Len(RankPayload.columnDefs) = MaxCols + 1
    /\ Len(RankPayload.data) = MaxCols
    /\ ~ex_out.rank.res.raised
    /\ Len(ex_out.rank.res.value.rows) = MaxRows

(***************************************************************************)
(* SpecName: the normalisation of line 271 on the column names of a        *)
(* bounded set, applied once and then again to its own result              *)
(***************************************************************************)

MaxNameLen == 5

\* The symbols of a raw column name: a lower-case letter, the lower-case
\* spelling of what the normalisation writes, and every character the
\* normalisation reads or writes.
NameSymbols == {"a", "per", " ", "_", "(", "%", ")"}

InitName ==
    /\ name_in \in SeqsUpTo(NameSymbols, MaxNameLen)
    /\ name_out = <<>>
    /\ IdleBatch /\ IdleUp /\ IdleNav /\ IdleTab /\ IdleEx

\* The name is normalised.
NormalizeName ==
    /\ Len(name_out) = 0
    /\ name_out' = <<Normalize(name_in)>>
    /\ UNCHANGED <<name_in, batchVars, upVars, navVars, tabVars, exVars>>

\* The normalised name is normalised again.
NormalizeAgain ==
    /\ Len(name_out) = 1
    /\ name_out' = Append(name_out, Normalize(name_out[1]))
    /\ UNCHANGED <<name_in, batchVars, upVars, navVars, tabVars, exVars>>

NextName == NormalizeName \/ NormalizeAgain
SpecName == InitName /\ [][NextName]_vars

(***************************************************************************)
(* Claims about the normalisation (checked under SpecName)                 *)
(***************************************************************************)

Occurs(s, p) == \E i \in 1..Len(s) : IsPrefixAt(s, p, i)

\* C11: normalising a column name a second time changes nothing:
\* normalize(normalize(x)) = normalize(x) for every name x.
C11_Idempotent ==
    Len(name_out) = 2 => name_out[2] = name_out[1]

\* A name of brackets within brackets, "((%))", whose inner "(%)" the
\* first normalisation has replaced, has been normalised twice.
C11_WitnessNested ==
    /\ Len(name_out) = 2
    /\ name_in = <<"(", "(", "%", ")", ")">>
    /\ name_out[1] = <<"(", "PER", ")">>

\* A name with a letter, a space and a "(%)", all three steps of the
\* normalisation acting on it, has been normalised twice.
C11_Witness ==
    /\ Len(name_out) = 2
    /\ name_in = <<"a", " ", "(", "%", ")">>
    /\ name_out[1] = <<"A", "_", "PER">>

(***************************************************************************)
(* The warehouse gateway (snowflake_ncl.py)                                *)
(*                                                                         *)
(* The warehouse is the set of its schemas, the set of its tables and, for *)
(* each table, the bag of the frames written to it.  Names are held in     *)
(* upper case, as the queries of check_access and write_pandas spell them. *)
(* What the warehouse answers to one call is a record env: how each query  *)
(* and statement of the call ends.  False is the empty text.               *)
(***************************************************************************)

PyFalse == <<>>

EmptyWarehouse == [schemas |-> {}, tables |-> {}, rows |-> <<>>]

TableKey(schema, table) == <<Upper(schema), Upper(table)>>

\* check_access with a schema: a query that fails raises; an unknown
\* database answers False; else the table is looked up if one is named, the
\* schema if not.
check_access(w, answer, schema, table) ==
    IF answer = "raise" THEN Raised("DatabaseError")
    ELSE IF answer = "nodb" THEN Returned(FALSE)
    ELSE IF table # PyFalse
         THEN Returned(TableKey(schema, table) \in w.tables)
         ELSE Returned(Upper(schema) \in w.schemas)

\* get_user: nothing guards its query.
get_user(answer) ==
    IF answer = "raise" THEN Raised("ProgrammingError")
    ELSE Returned(<<"user@nhs.net">>)

\* create_schema: the statement goes through execute_sql, which swallows
\* its failure; the result is not looked at.
create_schema(w, outcome, schema) ==
    IF outcome = "ok" /\ Upper(schema) \notin w.schemas
    THEN [w EXCEPT !.schemas = @ \cup {Upper(schema)}]
    ELSE w

\* create_table: as create_schema; the table is made in a schema that is
\* there, and holds nothing.
create_table(w, outcome, schema, table) ==
    LET key == TableKey(schema, table)
    IN  IF /\ outcome = "ok"
           /\ Upper(schema) \in w.schemas
           /\ key \notin w.tables
        THEN [w EXCEPT !.tables = @ \cup {key},
                       !.rows = @ @@ (key :> EmptyBag)]
        ELSE w

\* write_pandas and the lines around it: the frame is added to the rows of
\* the table, or takes their place; a write that reports no success or
\* raises, as it does for a table that is not there, gives False.
WritePandas(w, outcome, df, schema, table, replace) ==
    LET key == TableKey(schema, table)
        success == outcome = "ok" /\ key \in w.tables
    IN  [res |-> Returned(success),
         wh |-> IF success
                THEN [w EXCEPT !.rows[key] =
                        IF replace THEN SetToBag({df})
                        ELSE @ (+) SetToBag({df})]
                ELSE w]

\* The part of upload_df from the table check on.
UploadToTable(w, env, df, table_name, schema, replace, table_columns, table_description) ==
    LET has_table == check_access(w, env.chk2, schema, table_name)
    IN  IF has_table.raised THEN [res |-> has_table, wh |-> w]
        ELSE IF has_table.value
        THEN WritePandas(w, env.write, df, schema, table_name, replace)
        ELSE IF table_columns = PyFalse
        THEN [res |-> Raised("Exception"), wh |-> w]
        ELSE IF table_description = PyFalse /\ get_user(env.usr).raised
        THEN [res |-> get_user(env.usr), wh |-> w]
        ELSE WritePandas(create_table(w, env.mk_table, schema, table_name),
                         env.write, df, schema, table_name, replace)

\* upload_df: its result, returned or raised, and the warehouse it leaves.
upload_df(w, env, df, table_name, schema, replace, table_columns, table_description) ==
    LET has_schema == check_access(w, env.chk1, schema, PyFalse)
    IN  IF has_schema.raised THEN [res |-> has_schema, wh |-> w]
        ELSE IF has_schema.value
        THEN UploadToTable(w, env, df, table_name, schema, replace,
                           table_columns, table_description)
        ELSE IF get_user(env.usr).raised
        THEN [res |-> get_user(env.usr), wh |-> w]
        ELSE UploadToTable(create_schema(w, env.mk_schema, schema), env, df,
                           table_name, schema, replace, table_columns,
                           table_description)

\* What the warehouse can answer to one call.
Envs ==
    [chk1 : {"answer", "nodb", "raise"}, chk2 : {"answer", "nodb", "raise"},
     usr : {"ok", "raise"}, mk_schema : {"ok", "fail"},
     mk_table : {"ok", "fail"}, write : {"ok", "false", "raise"}]
AllWell ==
    [chk1 |-> "answer", chk2 |-> "answer", usr |-> "ok", mk_schema |-> "ok",
     mk_table |-> "ok", write |-> "ok"]

(***************************************************************************)
(* SpecUpload: one call of upload_df                                       *)
(***************************************************************************)

UpSchema == <<"analyst_managed">>
UpTable == <<"ranking">>
UpKey == TableKey(UpSchema, UpTable)
UpWarehouses ==
    {EmptyWarehouse,
     [schemas |-> {Upper(UpSchema)}, tables |-> {}, rows |-> <<>>],
     [schemas |-> {Upper(UpSchema)}, tables |-> {UpKey},
      rows |-> (UpKey :> EmptyBag)],
     [schemas |-> {Upper(UpSchema)}, tables |-> {UpKey},
      rows |-> (UpKey :> SetToBag({"old"}))]}

UploadInputs ==
    [wh : UpWarehouses, env : Envs, replace : BOOLEAN,
     table_columns : {PyFalse, <<"X", "Y">>},
     table_description : {PyFalse, <<"Table", " ", "of", " ", "ranking">>}]

InitUpload ==
    /\ up_in \in UploadInputs
    /\ up_out = NotCalled
    /\ IdleBatch /\ IdleNav /\ IdleTab /\ IdleEx /\ IdleName

\* The frame is uploaded.
Upload ==
    /\ ~up_out.called
    /\ up_out' = Called(upload_df(up_in.wh, up_in.env, "new", UpTable, UpSchema,
                                  up_in.replace, up_in.table_columns,
                                  up_in.table_description))
    /\ UNCHANGED <<up_in, batchVars, navVars, tabVars, exVars, nameVars>>

NextUpload == Upload
SpecUpload == InitUpload /\ [][NextUpload]_vars

(***************************************************************************)
(* Claims about upload_df                                                  *)
(***************************************************************************)

\* C4 as stated: whatever fails inside the call, upload_df returns False
\* and raises nothing.
C4_AsStated ==
    up_out.called => ~up_out.res.res.raised

(***************************************************************************)
(* The batch driver (main.py)                                              *)
(*                                                                         *)
(* A directory is a function from the names of the files in it to their    *)
(* contents.  The driver is modelled as main.py calls it: with an archive  *)
(* directory, both kinds of table processed.                               *)
(***************************************************************************)

MaxRuns == 2
MaxDrops == 1
MaxFaults == 2

NameA == FileNameOf(GoodMade)
NameB == FileNameOf([GoodMade EXCEPT !.words = <<<<"North">>, <<"Trust">>>>,
                                     !.fix = TRUE])
NameC == FileNameOf(BadMade)
BatchNames == {NameA, NameB, NameC}

\* The document of every file: a section, in it a tab set of three tabs,
\* the second of them on the blacklist, and a subsection that is no tab set.
BatchDoc ==
    [MakeDoc(6, <<0, 1, 2, 2, 2, 1>>, 2,
             <<FALSE, TRUE, FALSE, FALSE, FALSE, FALSE>>, <<0, 0>>)
     EXCEPT !.id[4] = <<"stage", "-", "by", "-", "cancer", "-", "group", "-",
                        "in", "-", "lung">>]
BatchTabIds == {BatchDoc.id[3], BatchDoc.id[4], BatchDoc.id[5]}

\* The contents a file can have: sound ones, in two revisions, and ones
\* with a fault in the ranking section or in a tab.
RankingFaults == {"appendices", "ranking", "heading", "script", "json"}
Sound(rev) == [rev |-> rev, fault |-> "none"]
Faulty(fault) == [rev |-> 1, fault |-> fault]
Contents == {Sound(1), Sound(2), Faulty("tab")}
            \cup {Faulty(f) : f \in RankingFaults}

\* The ranking part of a file's document.
RankOf(content) ==
    CASE content.fault = "appendices" ->
            [appendices |-> FALSE, sections |-> <<>>]
      [] content.fault = "ranking" ->
            [appendices |-> TRUE, sections |-> <<>>]
      [] content.fault = "heading" ->
            [appendices |-> TRUE,
             sections |-> <<RankSection(NoHeading, "json", GoodPayload)>>]
      [] content.fault = "script" ->
            [appendices |-> TRUE,
             sections |-> <<RankSection(RankHeading, "none", GoodPayload)>>]
      [] content.fault = "json" ->
            [appendices |-> TRUE,
             sections |-> <<RankSection(RankHeading, "unparseable",
                                        GoodPayload)>>]
      [] OTHER -> GoodRankDoc

\* The tabs of a file's document.
NodesOf(content) ==
    [id \in BatchTabIds |->
        IF content.fault = "tab" /\ id = BatchDoc.id[5] THEN BadTabNode
        ELSE PlainTabNode]

Without(dir, name) == [n \in DOMAIN dir \ {name} |-> dir[n]]

archive_html_overwriting(fs, file_name) ==
    IF Len(Split(file_name, <<"_">>)) < 3 THEN Raised("IndexError")
    ELSE Returned([unprocessed |-> Without(fs.unprocessed, file_name),
                   archive |-> (file_name :> fs.unprocessed[file_name])
                               @@ fs.archive])

\* Lines 57-75: the file is moved to the archive under its own name, in the
\* directory of its organisation code, unless a file of that name is there.
archive_html(fs, file_name) ==
    IF Len(Split(file_name, <<"_">>)) < 3 THEN Raised("IndexError")
    ELSE IF file_name \in DOMAIN fs.archive THEN Returned(fs)
    ELSE Returned([unprocessed |-> Without(fs.unprocessed, file_name),
                   archive |-> (file_name :> fs.unprocessed[file_name])
                               @@ fs.archive])

FlagAfterLast(flag, res) == res

\* Lines 140-141 and 179-180: the flag after an upload that gave res.
FlagAfter(flag, res) == IF ~res THEN FALSE ELSE flag

\* Line 163: the tables that are not uploaded.
Blacklist == <<"stage", "_", "by", "_", "cancer", "_", "group", "_", "in", "_">>
Blacklisted(ds_id) ==
    \E i \in 1..Len(ds_id) : IsPrefixAt(ds_id, Blacklist, i)

\* The keys of the dictionary of tab tables, in the order they were put in.
RECURSIVE KeysInOrder(_, _)
KeysInOrder(visited, seen) ==
    IF Len(visited) = 0 THEN <<>>
    ELSE LET key == DatasetKey(Head(visited))
         IN  IF key \in seen THEN KeysInOrder(Tail(visited), seen)
             ELSE <<key>> \o KeysInOrder(Tail(visited), seen \cup {key})

DestinationSchema == <<"destination_schema">>
TabSchema == <<"cancer__cosd_html">>

\* One line of the record kept of a file's processing: an upload and how it
\* ended, a table passed over, or the decision on the archive.
Event(op, table, res) == [op |-> op, table |-> table, res |-> res]
ResultOf(res) ==
    IF res.raised THEN "raised" ELSE IF res.value THEN "True" ELSE "False"

\* What is left of an upload: whether it ended the program, the warehouse,
\* the flag (lines 140-141, 179-180) and the line of the record.
UploadOutcome(up, flag, table_name) ==
    [crash |-> IF up.res.raised THEN up.res.value ELSE "none",
     wh |-> up.wh,
     flag |-> IF up.res.raised THEN flag ELSE FlagAfter(flag, up.res.value),
     log |-> <<Event("upload", table_name, ResultOf(up.res))>>]

\* An upload that asks for the rows of the table to be replaced.
UploadAsReplacing(w, env, df, table_name, schema, table_columns, flag) ==
    UploadOutcome(upload_df(w, env, df, table_name, schema, TRUE,
                            table_columns, <<"Table">>),
                  flag, table_name)

\* Lines 126-136 and 168-178: the upload as the driver asks for it, an
\* append, with the columns of the frame and a description.
UploadAs(w, env, df, table_name, schema, table_columns, flag) ==
    UploadOutcome(upload_df(w, env, df, table_name, schema, FALSE,
                            table_columns, <<"Table">>),
                  flag, table_name)

\* What ends the program before an upload.
Failed(cause, w, flag) ==
    [crash |-> cause, wh |-> w, flag |-> flag, log |-> <<>>]

\* Lines 115-141: the ranking table df_ort, if there is one, is uploaded to
\* the table named by what follows the first "_" of its section id.
RankingUpload(df_ort, file_name, content, w, env) ==
    IF df_ort.raised THEN Failed(df_ort.value, w, TRUE)
    ELSE IF Len(df_ort.value.rows) = 0 THEN Failed("IndexError", w, TRUE)
    ELSE IF get_user(env.usr).raised
    THEN Failed(get_user(env.usr).value, w, TRUE)
    ELSE UploadAs(w, env, [file |-> file_name, rev |-> content.rev],
                  JoinWith(Tail(Split(df_ort.value.rows[1][1], <<"_">>)),
                           <<"_">>),
                  DestinationSchema, df_ort.value.columns, TRUE)

\* The line of the record for an extraction that has returned.
ExtractionEvent(what, res) ==
    IF res.raised THEN <<>> ELSE <<Event("extract", what, "done")>>

\* Lines 104-141 for one file: the ranking table is extracted and uploaded.
RankingOutcome(file_name, content, w, env) ==
    IF Len(Split(file_name, <<"_">>)) < 2 THEN Failed("IndexError", w, TRUE)
    ELSE RankingUpload(
             extract_overall_ranking_data(RankOf(content), file_name),
             file_name, content, w, env)

\* Lines 149-180 for one table of a file: the table is written as a CSV
\* file, then uploaded unless it is on the blacklist.
TabOutcome(file_name, content, ds_id, flag, w, env) ==
    IF Blacklisted(ds_id)
    THEN [crash |-> "none", wh |-> w, flag |-> flag,
          log |-> <<Event("skip", ds_id, "none")>>]
    ELSE IF get_user(env.usr).raised
    THEN Failed(get_user(env.usr).value, w, flag)
    ELSE UploadAs(w, env, [file |-> file_name, rev |-> content.rev], ds_id,
                  TabSchema, PlainColumns, flag)

(***************************************************************************)
(* Spec: runs of the batch over a directory of files                       *)
(***************************************************************************)

\* The directories the batch starts from; the second revision of a file
\* arrives later.
Directories ==
    {<<>>, (NameC :> Sound(1))}
    \cup {(NameA :> c) : c \in Contents \ {Sound(2)}}
    \cup {(NameA :> c) @@ (NameB :> Sound(1)) :
             c \in {Sound(1), Faulty("tab"), Faulty("appendices"),
                    Faulty("json")}}
    \cup {(NameA :> Sound(1)) @@ (NameB :> Faulty("tab"))}

\* What the warehouse answers to an upload of the batch: all goes well, or
\* one query or statement of the call fails.
BatchEnvs ==
    {AllWell, [AllWell EXCEPT !.write = "false"],
     [AllWell EXCEPT !.chk1 = "raise"]}

\* The orders os.listdir can give the names in.
Orders(names) ==
    {f \in [1..Cardinality(names) -> names] :
        \A i, j \in 1..Cardinality(names) : i # j => f[i] # f[j]}

Init ==
    /\ unprocessed \in Directories
    /\ archive = <<>>
    /\ csvs = {}
    /\ wh = EmptyWarehouse
    /\ pc = "idle"
    /\ files = <<>>
    /\ idx = 0
    /\ processing_flag = TRUE
    /\ df_keys = <<>>
    /\ log = <<>>
    /\ runs = 0
    /\ drops = 0
    /\ faults = 0
    /\ crash = "none"
    /\ IdleUp /\ IdleNav /\ IdleTab /\ IdleEx /\ IdleName

\* Between two runs a file arrives again whose name is in the archive, in
\* another revision.
Drop ==
    /\ pc = "idle"
    /\ drops < MaxDrops
    /\ \E name \in DOMAIN archive :
         unprocessed' = (name :> Sound(2)) @@ unprocessed
    /\ drops' = drops + 1
    /\ UNCHANGED <<archive, csvs, wh, pc, files, idx, processing_flag,
                   df_keys, log, runs, faults, crash>>
    /\ UNCHANGED <<upVars, navVars, tabVars, exVars, nameVars>>

\* Lines 206-207, get_files at lines 27-34: the program starts on a
\* directory that holds files.
StartRun ==
    /\ pc = "idle"
    /\ runs < MaxRuns
    /\ DOMAIN unprocessed # {}
    /\ files' \in Orders(DOMAIN unprocessed)
    /\ idx' = 1
    /\ pc' = "rank"
    /\ runs' = runs + 1
    /\ crash' = "none"
    /\ log' = <<>>
    /\ df_keys' = <<>>
    /\ UNCHANGED <<unprocessed, archive, csvs, wh, processing_flag, drops,
                   faults>>
    /\ UNCHANGED <<upVars, navVars, tabVars, exVars, nameVars>>

\* Lines 30-32: the program starts on an empty directory, and get_files
\* raises.
NoFiles ==
    /\ pc = "idle"
    /\ runs < MaxRuns
    /\ DOMAIN unprocessed = {}
    /\ files' = <<>>
    /\ idx' = 0
    /\ runs' = runs + 1
    /\ crash' = "Exception"
    /\ log' = <<>>
    /\ df_keys' = <<>>
    /\ UNCHANGED <<unprocessed, archive, csvs, wh, pc, processing_flag, drops,
                   faults>>
    /\ UNCHANGED <<upVars, navVars, tabVars, exVars, nameVars>>

\* Lines 97-141: the next file is begun, its ranking table extracted and
\* uploaded.  Nothing catches what is raised: the program ends.
RankStep ==
    /\ pc = "rank"
    /\ \E env \in BatchEnvs :
         \E out \in {RankingOutcome(files[idx], unprocessed[files[idx]], wh,
                                     env)},
            df_ort \in {extract_overall_ranking_data(
                            RankOf(unprocessed[files[idx]]), files[idx])} :
             /\ wh' = out.wh
             /\ processing_flag' = out.flag
             /\ log' = ExtractionEvent("ranking", df_ort) \o out.log
             /\ crash' = out.crash
             /\ pc' = IF out.crash # "none" THEN "idle" ELSE "tabs"
             /\ env # AllWell => faults < MaxFaults
             /\ faults' = IF env # AllWell THEN faults + 1 ELSE faults
    /\ df_keys' = <<>>
    /\ UNCHANGED <<unprocessed, archive, csvs, files, idx, runs, drops>>
    /\ UNCHANGED <<upVars, navVars, tabVars, exVars, nameVars>>

\* Lines 143-147: the tab tables of the file are extracted.
TabsExtract ==
    /\ pc = "tabs"
    /\ \E df_dict \in {extract_all_tabs_data(
                            BatchDoc, NodesOf(unprocessed[files[idx]]),
                            files[idx])},
          keys \in {KeysInOrder(TabsVisited(BatchDoc), {})} :
         /\ log' = log \o ExtractionEvent("tabs", df_dict)
         /\ IF df_dict.raised
            THEN /\ crash' = df_dict.value
                 /\ pc' = "idle"
                 /\ df_keys' = <<>>
            ELSE /\ crash' = "none"
                 /\ df_keys' = keys
                 /\ pc' = IF Len(keys) = 0 THEN "archive" ELSE "upload"
    /\ UNCHANGED <<unprocessed, archive, csvs, wh, files, idx,
                   processing_flag, runs, drops, faults>>
    /\ UNCHANGED <<upVars, navVars, tabVars, exVars, nameVars>>

\* A loop that leaves for the archive step after its first turn.
TabUploadOnce ==
    /\ pc = "upload"
    /\ \E env \in BatchEnvs :
         \E out \in {TabOutcome(files[idx], unprocessed[files[idx]],
                                 Head(df_keys), processing_flag, wh, env)} :
             /\ csvs' = csvs \cup {<<Split(files[idx], <<".html">>)[1],
                                     Head(df_keys)>>}
             /\ wh' = out.wh
             /\ processing_flag' = out.flag
             /\ log' = log \o out.log
             /\ crash' = out.crash
             /\ env # AllWell => faults < MaxFaults
             /\ faults' = IF env # AllWell THEN faults + 1 ELSE faults
             /\ IF out.crash # "none"
                THEN pc' = "idle" /\ df_keys' = df_keys
                ELSE /\ df_keys' = Tail(df_keys)
                     /\ pc' = "archive"
    /\ UNCHANGED <<unprocessed, archive, files, idx, runs, drops>>
    /\ UNCHANGED <<upVars, navVars, tabVars, exVars, nameVars>>

\* Lines 147-180, one turn of the loop: the next tab table of the file is
\* written as a CSV file and, unless on the blacklist, uploaded.
TabUpload ==
    /\ pc = "upload"
    /\ \E env \in BatchEnvs :
         \E out \in {TabOutcome(files[idx], unprocessed[files[idx]],
                                 Head(df_keys), processing_flag, wh, env)} :
             /\ csvs' = csvs \cup {<<Split(files[idx], <<".html">>)[1],
                                     Head(df_keys)>>}
             /\ wh' = out.wh
             /\ processing_flag' = out.flag
             /\ log' = log \o out.log
             /\ crash' = out.crash
             /\ env # AllWell => faults < MaxFaults
             /\ faults' = IF env # AllWell THEN faults + 1 ELSE faults
             /\ IF out.crash # "none"
                THEN pc' = "idle" /\ df_keys' = df_keys
                ELSE /\ df_keys' = Tail(df_keys)
                     /\ pc' = IF Len(df_keys) = 1 THEN "archive" ELSE "upload"
    /\ UNCHANGED <<unprocessed, archive, files, idx, runs, drops>>
    /\ UNCHANGED <<upVars, navVars, tabVars, exVars, nameVars>>

\* Lines 182-184 and the end of the loop's turn: the file is archived if
\* the flag is still set; the next file follows, or the program ends.
ArchiveStep ==
    /\ pc = "archive"
    /\ LET file_name == files[idx]
           fs == [unprocessed |-> unprocessed, archive |-> archive]
           moved == archive_html(fs, file_name)
       IN  IF ~processing_flag
           THEN /\ UNCHANGED <<unprocessed, archive, crash>>
                /\ log' = Append(log, Event("archive", file_name, "none"))
                /\ idx' = idx + 1
                /\ pc' = IF idx = Len(files) THEN "idle" ELSE "rank"
           ELSE IF moved.raised
           THEN /\ UNCHANGED <<unprocessed, archive, idx>>
                /\ log' = Append(log, Event("archive", file_name, "raised"))
                /\ crash' = moved.value
                /\ pc' = "idle"
           ELSE /\ unprocessed' = moved.value.unprocessed
                /\ archive' = moved.value.archive
                /\ log' = Append(log, Event("archive", file_name,
                             IF file_name \in DOMAIN archive THEN "kept"
                             ELSE "moved"))
                /\ idx' = idx + 1
                /\ crash' = "none"
                /\ pc' = IF idx = Len(files) THEN "idle" ELSE "rank"
    /\ UNCHANGED <<csvs, wh, files, processing_flag, df_keys, runs, drops,
                   faults>>
    /\ UNCHANGED <<upVars, navVars, tabVars, exVars, nameVars>>

Next ==
    \/ Drop
    \/ StartRun
    \/ NoFiles
    \/ RankStep
    \/ TabsExtract
    \/ TabUpload
    \/ ArchiveStep

Spec == Init /\ [][Next]_vars

(***************************************************************************)
(* Claims about the batch                                                  *)
(***************************************************************************)

\* The tables a sound file is uploaded to.
RankingTable == <<"overall", "_", "ranking">>
SoundTabTables == {<<"three", "_", "tab">>, <<"five", "_", "tab">>}

Uploads == {i \in 1..Len(log) : log[i].op = "upload"}
UploadedTo(table) == \E i \in Uploads : log[i].table = table
SomeUploadFailed == \E i \in Uploads : log[i].res = "False"
LastEvent == log[Len(log)]

\* The turn of the loop for the file named in the record has reached its
\* end, the decision on the archive.
Decided == Len(log) > 0 /\ LastEvent.op = "archive"
ArchiveInvoked == Decided /\ LastEvent.res # "none"

\* The program has ended on something raised while a file was processed.
Aborted == pc = "idle" /\ crash # "none" /\ Len(files) > 0

\* C1: when the processing of a file reaches its end, the upload of the
\* ranking table and of every tab table not on the blacklist has been made,
\* and archive_html is invoked for the file exactly if every one of these
\* uploads returned True; after an upload that returned False the file is
\* still in the directory of unprocessed files.  A file whose processing was
\* ended by something raised is not archived.
C1_ArchiveIffAllUploaded ==
    /\ Decided =>
         /\ UploadedTo(RankingTable)
         /\ \A t \in SoundTabTables : UploadedTo(t)
         /\ \A i \in Uploads : log[i].table \in {RankingTable} \cup SoundTabTables
         /\ ArchiveInvoked <=> (\A i \in Uploads : log[i].res = "True")
         /\ SomeUploadFailed => LastEvent.table \in DOMAIN unprocessed
    /\ Aborted =>
         /\ \A i \in 1..Len(log) : log[i].op # "archive"
         /\ files[idx] \in DOMAIN unprocessed

C1_Witness ==
    /\ Decided
    /\ ~ArchiveInvoked
    /\ Cardinality(Uploads) = 3
    /\ Cardinality({i \in Uploads : log[i].res = "False"}) = 1
    /\ log[Len(log) - 1].res = "True"
    /\ LastEvent.table \in DOMAIN unprocessed
    /\ DOMAIN archive # {}

\* What the extraction of a file raises on a document or a file name it
\* cannot read.
StructuralErrors ==
    {"AttributeError", "Exception", "JSONDecodeError", "ValueError",
     "IndexError"}

\* C2 as stated: once an upload of a file has returned failure, the upload
\* of every remaining table of the file is still attempted.
C2_AsStated ==
    ((Decided \/ (Aborted /\ crash \notin StructuralErrors))
     /\ SomeUploadFailed) =>
        \A t \in SoundTabTables : UploadedTo(t)

\* C3 as stated: a structural or parse error of one file ends the
\* processing of that file only: when the program has ended, no file of the
\* list after it is left without having been processed.
C3_AsStated ==
    (Aborted /\ crash \in StructuralErrors) => idx = Len(files)

\* C5: archive_html never overwrites.  No step changes or removes a copy
\* held in the archive; when it is invoked for a file whose name is in the
\* archive, the archive and the directory of unprocessed files stay as they
\* are; when the name is not in the archive, the file is moved there.
C5_NeverOverwrites ==
    [][/\ \A n \in DOMAIN archive :
            n \in DOMAIN archive' /\ archive'[n] = archive[n]
       /\ (pc = "archive" /\ log'[Len(log')].res # "none") =>
            IF files[idx] \in DOMAIN archive
            THEN archive' = archive /\ unprocessed' = unprocessed
            ELSE /\ archive' = (files[idx] :> unprocessed[files[idx]])
                               @@ archive
                 /\ files[idx] \notin DOMAIN unprocessed'
                 /\ \A n \in DOMAIN unprocessed \ {files[idx]} :
                        n \in DOMAIN unprocessed'
                        /\ unprocessed'[n] = unprocessed[n]]_vars

C5_Witness ==
    /\ ArchiveInvoked
    /\ LastEvent.res = "kept"
    /\ LastEvent.table \in DOMAIN archive
    /\ LastEvent.table \in DOMAIN unprocessed
    /\ archive[LastEvent.table] # unprocessed[LastEvent.table]

(***************************************************************************)
(* The order of the steps within the turn of one file                      *)
(***************************************************************************)

RankingExtracted == Event("extract", "ranking", "done")
TabsExtracted == Event("extract", "tabs", "done")
Before(ev, i) == \E j \in 1..(i - 1) : log[j] = ev
Archives == {i \in 1..Len(log) : log[i].op = "archive"}

\* The next file of the list is about to be begun.
NextFileBegins == pc = "rank" /\ idx > 1

\* C12 as stated: no table of a file is uploaded before both the tab
\* extraction and the ranking extraction of the file have returned; the
\* archive step comes after every upload of the file; the next file is
\* begun only after the archive step of the file before it.
C12_AsStated ==
    /\ \A i \in Uploads : Before(RankingExtracted, i) /\ Before(TabsExtracted, i)
    /\ \A i \in Archives : \A t \in {RankingTable} \cup SoundTabTables :
           \E j \in Uploads : j < i /\ log[j].table = t
    /\ NextFileBegins => Decided /\ LastEvent.table = files[idx - 1]

\* C12: the turn of a file goes: the ranking table is extracted, then
\* uploaded, then the tab tables are extracted, then uploaded one after the
\* other, then comes the archive step.  The ranking table is uploaded
\* after its extraction and before the extraction of the tab tables; a tab
\* table is uploaded only after both extractions; the archive step is the
\* last of the turn and comes after the upload of every table; the next
\* file is begun only after the archive step of the file before it.
C12_Order ==
    /\ \A i \in Uploads :
         /\ Before(RankingExtracted, i)
         /\ IF log[i].table = RankingTable
            THEN ~Before(TabsExtracted, i) /\ i = 2
            ELSE Before(TabsExtracted, i)
                 /\ \E j \in Uploads : j < i /\ log[j].table = RankingTable
    /\ \A i \in Archives :
         /\ i = Len(log)
         /\ \A t \in {RankingTable} \cup SoundTabTables :
               \E j \in Uploads : j < i /\ log[j].table = t
    /\ NextFileBegins => Decided /\ LastEvent.table = files[idx - 1]

\* The turn of the first file of two has gone through all its steps, three
\* uploads among them, and the second file is about to be begun.
C12_Witness ==
    /\ NextFileBegins
    /\ Decided
    /\ Cardinality(Uploads) = 3
    /\ log[1] = RankingExtracted
    /\ log[2].op = "upload"
    /\ log[3] = TabsExtracted

(***************************************************************************)
(* The copies of a file's records in the warehouse                         *)
(***************************************************************************)

\* The records of a file in a table are the frame uploaded from it; the
\* frame of the file whose turn it is:
CurrentFrame == [file |-> files[idx], rev |-> unprocessed[files[idx]].rev]

CopiesOf(w, key, frame) ==
    IF key \in DOMAIN w.rows THEN CopiesIn(frame, w.rows[key]) ELSE 0
FramesOf(w, key) ==
    IF key \in DOMAIN w.rows THEN BagToSet(w.rows[key]) ELSE {}

\* The table that holds the ranking records, and those that hold the
\* records of the tabs.
RankingKey == TableKey(DestinationSchema, RankingTable)
TabKey(t) == TableKey(TabSchema, t)
TabKeys == {TabKey(t) : t \in SoundTabTables}

\* The step at hand is an upload that returned True, of the current file's
\* frame to the table of the given key.
UploadSucceeds(key) ==
    \/ /\ pc = "rank"
       /\ key = RankingKey
       /\ \E i \in 1..Len(log') : log'[i] = Event("upload", RankingTable, "True")
    \/ /\ pc = "upload"
       /\ key = TabKey(Head(df_keys))
       /\ Len(log') = Len(log) + 1
       /\ log'[Len(log')] = Event("upload", Head(df_keys), "True")

\* C13: every upload of the batch is an append and no step removes rows
\* from the warehouse: a step that is an upload returning True adds one
\* copy of the current file's records to its table and leaves every other
\* count as it was; every other step leaves every count as it was.  The
\* copies of a file's records in a table are so many as uploads of that
\* table have returned True for the file, over all runs.
C13_CopiesCountUploads ==
    [][\A key \in DOMAIN wh.rows \cup DOMAIN wh'.rows :
         \A frame \in FramesOf(wh, key) \cup FramesOf(wh', key) :
            CopiesOf(wh', key, frame) =
               CopiesOf(wh, key, frame)
               + (IF pc \in {"rank", "upload"} /\ UploadSucceeds(key)
                     /\ frame = CurrentFrame
                  THEN 1 ELSE 0)]_vars

\* A file was left unarchived by a first run in which the upload of one of
\* its tab tables failed, and went through a second run with every upload
\* returning True: the tables uploaded in both runs hold two copies
\* of its records, the other one copy, and the file is in the archive.
C13_Witness ==
    /\ runs = 2
    /\ Decided /\ LastEvent.res = "moved"
    /\ \E f \in DOMAIN archive :
         LET frame == [file |-> f, rev |-> archive[f].rev]
         IN  /\ LastEvent.table = f
             /\ CopiesOf(wh, RankingKey, frame) = 2
             /\ \E t \in SoundTabTables :
                   /\ CopiesOf(wh, TabKey(t), frame) = 1
                   /\ \A u \in SoundTabTables \ {t} :
                         CopiesOf(wh, TabKey(u), frame) = 2

====
